---- MODULE Spec2Model ----
(***************************************************************************)
(* Model of the Investec API client (src/src/utils.py): the OAuth2 token   *)
(* state of InvestecClient, _get_token, _make_request and the factory      *)
(* get_investec_api_client.  Coroutines are interleaved at their await     *)
(* points; time.time() is the variable now.                                *)
(***************************************************************************)
EXTENDS Integers, FiniteSets, Sequences, TLC

\* ---------------------------------------------------------------- bounds
MaxCalls == 2
MaxTicks == 1
StartTime == 1000

\* ------------------------------------------------------ program constants
\* utils.py:52  "- 60  # Buffer of 60 seconds"
Buffer == 60

\* ------------------------------------------------------------ environment
Clients == {"c1", "c2"}
Tasks == {1, 2}
TickStep == Buffer
MaxTime == StartTime + MaxTicks * TickStep
\* expires_in values the identity endpoint may declare
Lifetimes == {60, 120, 300}
\* HTTP statuses the identity and the resource endpoints may answer with
IdentityStatuses == {200, 401}
ResourceStatuses == {200, 500}
EnvNames == {"INVESTEC_CLIENT_ID", "INVESTEC_CLIENT_SECRET", "INVESTEC_API_KEY"}
\* an environment variable that is not set
Unset == "<unset>"
EnvValues == {Unset, "", "cred"}

\* Python None (utils.py:26) and a token string issued by the server
None == <<>>
Tok(n) == <<n>>

VARIABLES
    environ,           \* os.environ: name -> value or Unset
    raised,            \* factory calls that raised ValueError
    client_id, client_secret, api_key,   \* per instance (domain: the instances)
    access_token,      \* self.access_token, per instance
    token_expires_at,  \* self.token_expires_at, per instance
    now,               \* time.time()
    pc,                \* per task: where its coroutine is suspended
    self,              \* per task: the instance its call is on
    headers,           \* per task: the bearer token put in Authorization
    response,          \* per task: the last httpx response received
    outcome,           \* per task: result or exception of its last call
    tool_result,       \* per task: what the tool that made the call returned
    idReq,             \* per task: identity requests sent by the current call
    resReq,            \* per task: resource requests sent by the current call
    path,              \* per task: how _get_token ended in the current call
    needed,            \* per task: no token was held, or it had expired, at utils.py:32
    raced,             \* per task: another call stored a token since its utils.py:32
    hdr_exp,           \* per task: token_expires_at when headers were built
    renewed,           \* per instance: (token, expiry) pairs stored by successful renewals
    tokens_issued,     \* identity server: number of tokens issued
    calls,             \* number of operation calls started
    op_args,           \* a client method invocation: the method and its arguments
    op_trace           \* the calls that invocation made, down to _make_request

vars == <<environ, raised, client_id, client_secret, api_key, access_token,
          token_expires_at, now, pc, self, headers, response, outcome, tool_result,
          idReq, resReq, path, needed, raced, hdr_exp, renewed, tokens_issued, calls,
          op_args, op_trace>>

opVars == <<op_args, op_trace>>
clientVars == <<raised, client_id, client_secret, api_key>>
taskVars == <<pc, self, headers, response, outcome, tool_result, idReq, resReq, path,
              needed, raced, hdr_exp>>

Instances == DOMAIN access_token

\* ------------------------------------------------------------ pure helpers
\* os.getenv(name, default)
Getenv(name, default) == IF environ[name] = Unset THEN default ELSE environ[name]

\* Python truthiness of a str
Truthy(s) == s # ""

\* any([...]) in place of all([...])
AnyOf(xs) == \E i \in DOMAIN xs : Truthy(xs[i])

\* all([...]) over a tuple of strings
All(xs) == \A i \in DOMAIN xs : Truthy(xs[i])

\* the comparison of utils.py:32 with <= in place of <
TokenUsableInclusive(tok, exp, t) == tok # None /\ t <= exp

\* utils.py:32  self.access_token and time.time() < self.token_expires_at
TokenUsable(tok, exp, t) == tok # None /\ t < exp

\* utils.py:52 without the buffer, and with the buffer taken off twice
ExpiresAtNoBuffer(t, expires_in) == t + expires_in

ExpiresAtDoubleBuffer(t, expires_in) == t + expires_in - Buffer - Buffer

\* utils.py:52  time.time() + data["expires_in"] - 60
ExpiresAt(t, expires_in) == t + expires_in - Buffer

\* is_success that lets client errors through
IsSuccessLax(status) == status >= 200 /\ status <= 499

\* httpx Response.is_success, used by raise_for_status
IsSuccess(status) == status >= 200 /\ status <= 299

\* httpx.HTTPStatusError raised by raise_for_status: carries the response
HTTPStatusError(phase, resp) ==
    [kind |-> "HTTPStatusError", phase |-> phase, status |-> resp.status, body |-> resp.body]

KeyError(key) == [kind |-> "KeyError", phase |-> "identity", key |-> key]
TransportError(phase) == [kind |-> "TransportError", phase |-> phase]
Returned(resp) == [kind |-> "ok", phase |-> "resource", body |-> resp.body]
NoOutcome == [kind |-> "none"]
NoResponse == [status |-> 0]
NoResult == [type |-> "none"]

\* json.dumps(result, indent=2): the text of a JSON document
JsonDumps(doc) == <<"json", doc>>

\* str(e) after the tool's "Error ...: " prefix
ErrorText(exc) == <<"Error", exc.kind>>

\* a handler written for httpx.HTTPStatusError alone
CaughtHTTPOnly(exc) == exc.kind = "HTTPStatusError"

\* "except Exception as e" (e.g. tools/accounts.py:26): the exceptions of the
\* client are all subclasses of Exception
Caught(exc) == exc.kind \in {"HTTPStatusError", "KeyError", "TransportError"}

\* The body of every registered tool (e.g. tools/accounts.py:22-27): the
\* client method awaited inside try, its result dumped, an exception turned
\* into a message; what the handler does not catch leaves the tool.
ToolReturn(out) ==
    IF out.kind = "ok" THEN [type |-> "str", text |-> JsonDumps(out.body)]
    ELSE IF Caught(out) THEN [type |-> "str", text |-> ErrorText(out)]
    ELSE [type |-> "raised", exc |-> out.kind]

\* the attribute kept on the class, shared by every instance
StoreShared(f, c, v) == [x \in DOMAIN f |-> v]

\* self.access_token = ... / self.token_expires_at = ... on one instance
Store(f, c, v) == [f EXCEPT ![c] = v]

\* bodies the identity endpoint may send with a success status
IdentityBodies(tok) ==
    {[access_token |-> tok, expires_in |-> l] : l \in Lifetimes}
        \cup {[access_token |-> tok], [expires_in |-> 300]}

ErrorBody == [message |-> "err"]

\* ------------------------------------------------------------------- Init
ClientInit ==
    /\ environ \in [EnvNames -> EnvValues]
    /\ raised = {}
    /\ client_id = <<>> /\ client_secret = <<>> /\ api_key = <<>>
    /\ access_token = <<>>
    /\ token_expires_at = <<>>
    /\ now = StartTime
    /\ pc = [t \in Tasks |-> "idle"]
    /\ self = [t \in Tasks |-> "c1"]
    /\ headers = [t \in Tasks |-> None]
    /\ response = [t \in Tasks |-> NoResponse]
    /\ outcome = [t \in Tasks |-> NoOutcome]
    /\ tool_result = [t \in Tasks |-> NoResult]
    /\ idReq = [t \in Tasks |-> 0]
    /\ resReq = [t \in Tasks |-> 0]
    /\ path = [t \in Tasks |-> "none"]
    /\ needed = [t \in Tasks |-> FALSE]
    /\ raced = [t \in Tasks |-> FALSE]
    /\ hdr_exp = [t \in Tasks |-> 0]
    /\ renewed = [c \in Clients |-> {}]
    /\ tokens_issued = 0
    /\ calls = 0

NoArgs == [op |-> "none"]

Init ==
    /\ ClientInit
    /\ op_args = NoArgs
    /\ op_trace = <<>>

\* ---------------------------------------------------------------- actions
\* get_investec_api_client() (utils.py:382-394) with InvestecClient.__init__
\* (utils.py:14-28); c names the call and, when it returns, the instance.
GetClient(c) ==
    /\ c \notin Instances /\ c \notin raised
    /\ LET id == Getenv("INVESTEC_CLIENT_ID", "")
           secret == Getenv("INVESTEC_CLIENT_SECRET", "")
           key == Getenv("INVESTEC_API_KEY", "")
       IN IF ~All(<<id, secret, key>>)
          THEN /\ raised' = raised \cup {c}
               /\ UNCHANGED <<client_id, client_secret, api_key, access_token, token_expires_at>>
          ELSE /\ client_id' = client_id @@ (c :> id)
               /\ client_secret' = client_secret @@ (c :> secret)
               /\ api_key' = api_key @@ (c :> key)
               /\ access_token' = access_token @@ (c :> None)
               /\ token_expires_at' = token_expires_at @@ (c :> 0)
               /\ UNCHANGED raised
    /\ UNCHANGED <<environ, opVars, now, taskVars, renewed, tokens_issued, calls>>

\* time passes
Tick ==
    /\ now + TickStep <= MaxTime
    /\ now' = now + TickStep
    /\ UNCHANGED <<environ, opVars, clientVars, access_token, token_expires_at, taskVars,
                   renewed, tokens_issued, calls>>

\* A client method calls _make_request (utils.py:54-56), which runs _get_token
\* up to its first suspension: the check of utils.py:32, then either the
\* return and the headers of utils.py:58-67, or the POST of utils.py:38.
MakeRequest(t, c) ==
    /\ pc[t] = "idle" /\ c \in Instances /\ calls < MaxCalls
    /\ calls' = calls + 1
    /\ self' = [self EXCEPT ![t] = c]
    /\ needed' = [needed EXCEPT ![t] = (access_token[c] = None \/ now >= token_expires_at[c])]
    /\ raced' = [raced EXCEPT ![t] = FALSE]
    /\ outcome' = [outcome EXCEPT ![t] = NoOutcome]
    /\ tool_result' = [tool_result EXCEPT ![t] = NoResult]
    /\ response' = [response EXCEPT ![t] = NoResponse]
    /\ resReq' = [resReq EXCEPT ![t] = 0]
    /\ IF TokenUsable(access_token[c], token_expires_at[c], now)
       THEN /\ path' = [path EXCEPT ![t] = "fast"]
            /\ idReq' = [idReq EXCEPT ![t] = 0]
            /\ headers' = [headers EXCEPT ![t] = access_token[c]]
            /\ hdr_exp' = [hdr_exp EXCEPT ![t] = token_expires_at[c]]
            /\ pc' = [pc EXCEPT ![t] = "request_ready"]
       ELSE /\ path' = [path EXCEPT ![t] = "renewing"]
            /\ idReq' = [idReq EXCEPT ![t] = 1]
            /\ headers' = [headers EXCEPT ![t] = None]
            /\ hdr_exp' = [hdr_exp EXCEPT ![t] = 0]
            /\ pc' = [pc EXCEPT ![t] = "token_post"]
    /\ UNCHANGED <<environ, opVars, clientVars, access_token, token_expires_at, now,
                   renewed, tokens_issued>>

\* The identity endpoint answers the POST of utils.py:38-46.  A success
\* status comes with a body that may lack either expected field; the token it
\* issues is fresh, and issued now.
IdentityReply(t, status, body) ==
    /\ pc[t] = "token_post"
    /\ response' = [response EXCEPT ![t] = [status |-> status, body |-> body, issued |-> now]]
    /\ tokens_issued' = IF IsSuccess(status) /\ "access_token" \in DOMAIN body
                        THEN tokens_issued + 1 ELSE tokens_issued
    /\ pc' = [pc EXCEPT ![t] = "token_resp"]
    /\ UNCHANGED <<environ, opVars, clientVars, access_token, token_expires_at, now, self,
                   headers, outcome, tool_result, idReq, resReq, path, needed, raced,
                   hdr_exp, renewed, calls>>

\* Tasks other than t that are between their check of utils.py:32 and the end
\* of their call on instance c: a store by t races with them.
Racing(t, c) == {u \in Tasks \ {t} : pc[u] # "idle" /\ self[u] = c}

MarkRaced(t, c) == [u \in Tasks |-> IF u \in Racing(t, c) THEN TRUE ELSE raced[u]]

\* An exception raised inside _get_token is caught nowhere and goes on: the
\* call goes on to its resource request with path "failed".
RaiseSwallowed(t, exc) ==
    /\ path' = [path EXCEPT ![t] = "failed"]
    /\ pc' = [pc EXCEPT ![t] = "token_done"]
    /\ UNCHANGED <<outcome, tool_result, response>>

\* An exception raised inside _get_token: neither _get_token nor the await of
\* utils.py:56 catches it, so it ends the call and is its outcome; the locals
\* are dropped, and the tool that made the call returns.
Raise(t, exc) ==
    /\ outcome' = [outcome EXCEPT ![t] = exc]
    /\ tool_result' = [tool_result EXCEPT ![t] = ToolReturn(exc)]
    /\ path' = [path EXCEPT ![t] = "failed"]
    /\ pc' = [pc EXCEPT ![t] = "idle"]
    /\ response' = [response EXCEPT ![t] = NoResponse]

\* utils.py:48-52, run without suspension once the response is there:
\* raise_for_status, then the two assignments, each of which can raise
\* KeyError after the one before it has taken effect.
ProcessTokenResponse(t) ==
    /\ pc[t] = "token_resp"
    /\ LET c == self[t]
           r == response[t]
           data == r.body
       IN IF ~IsSuccess(r.status)
          THEN /\ Raise(t, HTTPStatusError("identity", r))
               /\ UNCHANGED <<access_token, token_expires_at, renewed, raced>>
          ELSE IF "access_token" \notin DOMAIN data
          THEN /\ Raise(t, KeyError("access_token"))
               /\ UNCHANGED <<access_token, token_expires_at, renewed, raced>>
          ELSE IF "expires_in" \notin DOMAIN data
          THEN /\ access_token' = Store(access_token, c, data.access_token)
               /\ raced' = MarkRaced(t, c)
               /\ Raise(t, KeyError("expires_in"))
               /\ UNCHANGED <<token_expires_at, renewed>>
          ELSE /\ access_token' = Store(access_token, c, data.access_token)
               /\ token_expires_at' = Store(token_expires_at, c, ExpiresAt(now, data.expires_in))
               /\ raced' = MarkRaced(t, c)
               /\ renewed' = [renewed EXCEPT ![c] = @ \cup
                     {[tok |-> data.access_token, exp |-> ExpiresAt(now, data.expires_in)]}]
               /\ path' = [path EXCEPT ![t] = "renewed"]
               /\ pc' = [pc EXCEPT ![t] = "token_done"]
               /\ UNCHANGED <<outcome, tool_result, response>>
    /\ UNCHANGED <<environ, opVars, clientVars, now, self, headers, idReq, resReq,
                   needed, hdr_exp, tokens_issued, calls>>

\* client.post (utils.py:38) raises a transport error.
IdentityTransportFail(t) ==
    /\ pc[t] = "token_post"
    /\ Raise(t, TransportError("identity"))
    /\ UNCHANGED <<environ, opVars, clientVars, access_token, token_expires_at, now, self,
                   headers, idReq, resReq, needed, raced, hdr_exp, renewed,
                   tokens_issued, calls>>

\* _make_request waits, before it builds its headers, until the instance
\* holds a token that has not expired.
BuildHeadersWhenUsable(t) ==
    /\ pc[t] = "token_done"
    /\ TokenUsable(access_token[self[t]], token_expires_at[self[t]], now)
    /\ headers' = [headers EXCEPT ![t] = access_token[self[t]]]
    /\ hdr_exp' = [hdr_exp EXCEPT ![t] = token_expires_at[self[t]]]
    /\ response' = [response EXCEPT ![t] = NoResponse]
    /\ pc' = [pc EXCEPT ![t] = "request_ready"]
    /\ UNCHANGED <<environ, opVars, clientVars, access_token, token_expires_at, now, self,
                   outcome, tool_result, idReq, resReq, path, needed, raced, renewed,
                   tokens_issued, calls>>

\* After the async with of utils.py:37 has closed the HTTP client (a
\* suspension point), _get_token returns and _make_request builds its headers
\* from self.access_token (utils.py:58-67).
BuildHeaders(t) ==
    /\ pc[t] = "token_done"
    /\ headers' = [headers EXCEPT ![t] = access_token[self[t]]]
    /\ hdr_exp' = [hdr_exp EXCEPT ![t] = token_expires_at[self[t]]]
    /\ response' = [response EXCEPT ![t] = NoResponse]
    /\ pc' = [pc EXCEPT ![t] = "request_ready"]
    /\ UNCHANGED <<environ, opVars, clientVars, access_token, token_expires_at, now, self,
                   outcome, tool_result, idReq, resReq, path, needed, raced, renewed,
                   tokens_issued, calls>>

\* client.request (utils.py:70-75) puts the request on the wire.
SendRequest(t) ==
    /\ pc[t] = "request_ready"
    /\ resReq' = [resReq EXCEPT ![t] = @ + 1]
    /\ pc' = [pc EXCEPT ![t] = "request_wait"]
    /\ UNCHANGED <<environ, opVars, clientVars, access_token, token_expires_at, now, self,
                   headers, response, outcome, tool_result, idReq, path, needed, raced,
                   hdr_exp, renewed, tokens_issued, calls>>

\* The resource request sent again after a non-success status.
ReceiveResponseRetry(t, status) ==
    /\ pc[t] = "request_wait"
    /\ LET r == [status |-> status,
                 body |-> IF IsSuccess(status) THEN [data |-> "json"] ELSE ErrorBody]
       IN IF IsSuccess(status)
          THEN /\ response' = [response EXCEPT ![t] = r]
               /\ outcome' = [outcome EXCEPT ![t] = Returned(r)]
               /\ tool_result' = [tool_result EXCEPT ![t] = ToolReturn(Returned(r))]
               /\ headers' = [headers EXCEPT ![t] = None]
               /\ hdr_exp' = [hdr_exp EXCEPT ![t] = 0]
               /\ pc' = [pc EXCEPT ![t] = "idle"]
          ELSE /\ pc' = [pc EXCEPT ![t] = "request_ready"]
               /\ UNCHANGED <<response, outcome, tool_result, headers, hdr_exp>>
    /\ UNCHANGED <<environ, opVars, clientVars, access_token, token_expires_at, now, self,
                   idReq, resReq, path, needed, raced, renewed, tokens_issued, calls>>

\* The resource endpoint answers, and a non-success status makes the client
\* forget its token.
ReceiveResponseInvalidate(t, status) ==
    /\ pc[t] = "request_wait"
    /\ LET r == [status |-> status,
                 body |-> IF IsSuccess(status) THEN [data |-> "json"] ELSE ErrorBody]
           out == IF IsSuccess(status) THEN Returned(r) ELSE HTTPStatusError("resource", r)
       IN /\ response' = [response EXCEPT ![t] = r]
          /\ outcome' = [outcome EXCEPT ![t] = out]
          /\ tool_result' = [tool_result EXCEPT ![t] = ToolReturn(out)]
    /\ access_token' = IF IsSuccess(status) THEN access_token
                       ELSE Store(access_token, self[t], None)
    /\ token_expires_at' = IF IsSuccess(status) THEN token_expires_at
                           ELSE Store(token_expires_at, self[t], 0)
    /\ headers' = [headers EXCEPT ![t] = None]
    /\ hdr_exp' = [hdr_exp EXCEPT ![t] = 0]
    /\ pc' = [pc EXCEPT ![t] = "idle"]
    /\ UNCHANGED <<environ, opVars, clientVars, now, self,
                   idReq, resReq, path, needed, raced, renewed, tokens_issued, calls>>

\* The resource endpoint answers; utils.py:77-78 raise or return the body,
\* and the tool that made the call returns.
ReceiveResponse(t, status) ==
    /\ pc[t] = "request_wait"
    /\ LET r == [status |-> status,
                 body |-> IF IsSuccess(status) THEN [data |-> "json"] ELSE ErrorBody]
           out == IF IsSuccess(status) THEN Returned(r) ELSE HTTPStatusError("resource", r)
       IN /\ response' = [response EXCEPT ![t] = r]
          /\ outcome' = [outcome EXCEPT ![t] = out]
          /\ tool_result' = [tool_result EXCEPT ![t] = ToolReturn(out)]
    /\ headers' = [headers EXCEPT ![t] = None]
    /\ hdr_exp' = [hdr_exp EXCEPT ![t] = 0]
    /\ pc' = [pc EXCEPT ![t] = "idle"]
    /\ UNCHANGED <<environ, opVars, clientVars, access_token, token_expires_at, now, self,
                   idReq, resReq, path, needed, raced, renewed, tokens_issued, calls>>

\* client.request (utils.py:70) raises a transport error.
RequestTransportFail(t) ==
    /\ pc[t] = "request_wait"
    /\ outcome' = [outcome EXCEPT ![t] = TransportError("resource")]
    /\ tool_result' = [tool_result EXCEPT ![t] = ToolReturn(TransportError("resource"))]
    /\ headers' = [headers EXCEPT ![t] = None]
    /\ hdr_exp' = [hdr_exp EXCEPT ![t] = 0]
    /\ pc' = [pc EXCEPT ![t] = "idle"]
    /\ UNCHANGED <<environ, opVars, clientVars, access_token, token_expires_at, now, self,
                   response, idReq, resReq, path, needed, raced, renewed,
                   tokens_issued, calls>>

Next ==
    \/ \E c \in Clients : GetClient(c)
    \/ Tick
    \/ \E t \in Tasks, c \in Clients : MakeRequest(t, c)
    \/ \E t \in Tasks, status \in IdentityStatuses :
         \E body \in (IF IsSuccess(status) THEN IdentityBodies(Tok(tokens_issued + 1))
                      ELSE {ErrorBody}) : IdentityReply(t, status, body)
    \/ \E t \in Tasks : IdentityTransportFail(t)
    \/ \E t \in Tasks : ProcessTokenResponse(t)
    \/ \E t \in Tasks : BuildHeaders(t)
    \/ \E t \in Tasks : SendRequest(t)
    \/ \E t \in Tasks, status \in ResourceStatuses : ReceiveResponse(t, status)
    \/ \E t \in Tasks : RequestTransportFail(t)

Spec == Init /\ [][Next]_vars

\* The steps that take task t's call forward once it has started: the
\* endpoints' answers and the code that runs on them.
TaskStep(t) ==
    \/ \E status \in IdentityStatuses :
         \E body \in (IF IsSuccess(status) THEN IdentityBodies(Tok(tokens_issued + 1))
                      ELSE {ErrorBody}) : IdentityReply(t, status, body)
    \/ IdentityTransportFail(t)
    \/ ProcessTokenResponse(t)
    \/ BuildHeaders(t)
    \/ SendRequest(t)
    \/ \E status \in ResourceStatuses : ReceiveResponse(t, status)
    \/ RequestTransportFail(t)

\* Both endpoints answer every request (with a status or a transport error),
\* and the event loop runs every coroutine that is ready.
FairSpec == Spec /\ \A t \in Tasks : WF_vars(TaskStep(t))

\* ------------------------------------------------- the per-operation methods
\* an Optional[str] argument left at its default None
Omitted == "<None>"
AccountIds == {"123"}
OptionalStrings(v) == {Omitted, "", v}
\* float amounts, in hundredths
Amounts == {10000, 50, 1}
References == {"ref", ""}

\* str(amount) of a float
PyStr(amount) ==
    CASE amount = 10000 -> "100.0"
      [] amount = 50 -> "0.5"
      [] amount = 1 -> "0.01"

\* a test for None in place of truthiness
TruthyArgNotNone(x) == x # Omitted

\* "if from_date:" and the like: None and the empty string are falsy
TruthyArg(x) == x # Omitted /\ x # ""

\* d[k] = v on a dict
Put(d, k, v) == [x \in DOMAIN d \cup {k} |-> IF x = k THEN v ELSE d[x]]

\* the call self._make_request(method, endpoint, **kwargs)
MakeRequestCall(method, endpoint, kwargs) ==
    <<[fn |-> "_make_request", method |-> method, endpoint |-> endpoint, kwargs |-> kwargs]>>

\* get_account_transactions (utils.py:103-138)
GetAccountTransactions(account_id, from_date, to_date, transaction_type, include_pending) ==
    LET p0 == <<>>
        p1 == IF TruthyArg(from_date) THEN Put(p0, "fromDate", from_date) ELSE p0
        p2 == IF TruthyArg(to_date) THEN Put(p1, "toDate", to_date) ELSE p1
        p3 == IF TruthyArg(transaction_type)
              THEN Put(p2, "transactionType", transaction_type) ELSE p2
        params == IF include_pending THEN Put(p3, "includePending", "true") ELSE p3
    IN MakeRequestCall("GET", <<"/accounts/", account_id, "/transactions">>,
                       [params |-> params])

\* the payload with profileId put in whatever was passed
TransferMultipleAlwaysProfile(from_account_id, transfer_list, profile_id) ==
    <<[fn |-> "transfer_multiple", account |-> from_account_id]>> \o
    MakeRequestCall("POST", <<"/accounts/", from_account_id, "/transfermultiple">>,
                    [json |-> Put(Put(<<>>, "transferList", transfer_list),
                                  "profileId", profile_id),
                     headers |-> [Content_Type |-> "application/json"]])

\* transfer_multiple (utils.py:234-260)
TransferMultiple(from_account_id, transfer_list, profile_id) ==
    LET p0 == Put(<<>>, "transferList", transfer_list)
        payload == IF TruthyArg(profile_id) THEN Put(p0, "profileId", profile_id) ELSE p0
    IN <<[fn |-> "transfer_multiple", account |-> from_account_id]>> \o
       MakeRequestCall("POST", <<"/accounts/", from_account_id, "/transfermultiple">>,
                       [json |-> payload,
                        headers |-> [Content_Type |-> "application/json"]])

\* pay_multiple (utils.py:262-282)
PayMultiple(account_id, payment_list) ==
    <<[fn |-> "pay_multiple", account |-> account_id]>> \o
    MakeRequestCall("POST", <<"/accounts/", account_id, "/paymultiple">>,
                    [json |-> Put(<<>>, "paymentList", payment_list),
                     headers |-> [Content_Type |-> "application/json"]])

\* transfer_money (utils.py:332-355)
TransferMoney(from_account_id, to_account_id, amount, reference) ==
    LET transfer_list == <<[beneficiaryAccountId |-> to_account_id,
                            amount |-> PyStr(amount),
                            myReference |-> reference,
                            theirReference |-> reference]>>
    IN TransferMultiple(from_account_id, transfer_list, Omitted)

\* pay_beneficiary (utils.py:357-380)
PayBeneficiary(account_id, beneficiary_id, amount, reference) ==
    LET payment_list == <<[beneficiaryId |-> beneficiary_id,
                           amount |-> PyStr(amount),
                           myReference |-> reference,
                           theirReference |-> reference]>>
    IN PayMultiple(account_id, payment_list)

\* transfer and payment lists a caller may pass to the -multiple methods
TransferLists ==
    {<<[beneficiaryAccountId |-> "B", amount |-> "100.0",
        myReference |-> "ref", theirReference |-> "ref"]>>,
     <<[beneficiaryAccountId |-> "B", amount |-> "0.5",
        myReference |-> "r1", theirReference |-> "r2"],
       [beneficiaryAccountId |-> "C", amount |-> "0.01",
        myReference |-> "r3", theirReference |-> "r4"]>>}

PaymentLists ==
    {<<[beneficiaryId |-> "ben1", amount |-> "100.0",
        myReference |-> "ref", theirReference |-> "ref"]>>}

\* the invocations of the five methods that take more than path arguments
OpInputs ==
    {[op |-> "get_account_transactions", account_id |-> a, from_date |-> f,
      to_date |-> d, transaction_type |-> ty, include_pending |-> ip] :
        a \in AccountIds, f \in OptionalStrings("2024-01-01"),
        d \in OptionalStrings("2024-01-31"),
        ty \in OptionalStrings("FeesAndInterest"), ip \in BOOLEAN}
    \cup {[op |-> "transfer_multiple", account_id |-> "A", list |-> l, profile_id |-> pid] :
            l \in TransferLists, pid \in OptionalStrings("p1")}
    \cup {[op |-> "pay_multiple", account_id |-> "A", list |-> l] : l \in PaymentLists}
    \cup {[op |-> "transfer_money", account_id |-> "A", to |-> "B", amount |-> m,
           reference |-> r] : m \in Amounts, r \in References}
    \cup {[op |-> "pay_beneficiary", account_id |-> "A", to |-> "ben1", amount |-> m,
           reference |-> r] : m \in Amounts, r \in References}

WrapperInit ==
    /\ ClientInit
    /\ op_args \in OpInputs
    /\ op_trace = <<>>

\* One invocation of a client method, up to its call of _make_request.
Invoke(result) ==
    /\ op_trace = <<>>
    /\ op_trace' = result
    /\ UNCHANGED <<environ, clientVars, access_token, token_expires_at, now, taskVars,
                   renewed, tokens_issued, calls, op_args>>

InvokeGetAccountTransactions ==
    /\ op_args.op = "get_account_transactions"
    /\ Invoke(GetAccountTransactions(op_args.account_id, op_args.from_date, op_args.to_date,
                                     op_args.transaction_type, op_args.include_pending))

InvokeTransferMultiple ==
    /\ op_args.op = "transfer_multiple"
    /\ Invoke(TransferMultiple(op_args.account_id, op_args.list, op_args.profile_id))

InvokePayMultiple ==
    /\ op_args.op = "pay_multiple"
    /\ Invoke(PayMultiple(op_args.account_id, op_args.list))

InvokeTransferMoney ==
    /\ op_args.op = "transfer_money"
    /\ Invoke(TransferMoney(op_args.account_id, op_args.to, op_args.amount, op_args.reference))

InvokePayBeneficiary ==
    /\ op_args.op = "pay_beneficiary"
    /\ Invoke(PayBeneficiary(op_args.account_id, op_args.to, op_args.amount, op_args.reference))

WrapperNext ==
    \/ InvokeGetAccountTransactions
    \/ InvokeTransferMultiple
    \/ InvokePayMultiple
    \/ InvokeTransferMoney
    \/ InvokePayBeneficiary

WrapperSpec == WrapperInit /\ [][WrapperNext]_vars

\* ----------------------------------------------------------------- claims
\* a credential that was supplied, and supplied non-empty
Supplied(name) == environ[name] # Unset /\ environ[name] # ""

\* a status outside the 2xx range
NonSuccess(status) == status < 200 \/ status > 299

\* C11: a tool whose call has ended has returned a string: the dumped JSON
\* body when the client method returned, an error message when it raised;
\* while the call runs the tool has returned nothing, and nothing is ever
\* raised out of a tool.
C11_ToolsReturnStrings ==
    \A t \in Tasks :
        /\ tool_result[t].type \in {"none", "str"}
        /\ (pc[t] = "idle" /\ outcome[t].kind = "ok") =>
              tool_result[t] = [type |-> "str", text |-> <<"json", outcome[t].body>>]
        /\ (pc[t] = "idle" /\ outcome[t].kind \notin {"ok", "none"}) =>
              tool_result[t] = [type |-> "str", text |-> <<"Error", outcome[t].kind>>]
        /\ pc[t] # "idle" => tool_result[t] = NoResult

\* C11 witness: one tool returned an error message for a KeyError of the
\* identity response, another the JSON of a successful call.
C11_Witness ==
    \E t, u \in Tasks :
        /\ pc[t] = "idle" /\ outcome[t].kind = "KeyError" /\ tool_result[t].type = "str"
        /\ pc[u] = "idle" /\ outcome[u].kind = "ok" /\ tool_result[u].type = "str"

\* C1: a call sends one identity request when, at its ensureToken check, no
\* token was held or now >= expiresAt, and none otherwise; never more than one.
C1_RenewsIffNeeded ==
    \A t \in Tasks :
        /\ path[t] = "none" => idReq[t] = 0
        /\ path[t] # "none" => idReq[t] = (IF needed[t] THEN 1 ELSE 0)

\* C1 witness: one call went the fast path with no identity request while
\* another call had to renew and sent one.
C1_Witness ==
    \E t, u \in Tasks :
        /\ path[t] = "fast" /\ ~needed[t] /\ idReq[t] = 0
        /\ path[u] = "renewed" /\ needed[u] /\ idReq[u] = 1

\* C2: the step that handles a non-success identity response ends the call
\* with the HTTP status error, sends no resource request and leaves every
\* accessToken and expiresAt as they were; unless another call stored a token
\* meanwhile, the token is then still absent or expired, so the next call
\* renews.
C2_FailedRenewalKeepsState ==
    [][\A t \in Tasks :
        (pc[t] = "token_resp" /\ NonSuccess(response[t].status) /\ pc'[t] # pc[t]) =>
            /\ access_token' = access_token
            /\ token_expires_at' = token_expires_at
            /\ pc'[t] = "idle"
            /\ resReq'[t] = 0
            /\ outcome'[t] = [kind |-> "HTTPStatusError", phase |-> "identity",
                              status |-> response[t].status, body |-> response[t].body]
            /\ (~raced[t] =>
                   \/ access_token'[self[t]] = None
                   \/ now' >= token_expires_at'[self[t]])]_vars

\* C2 witness: a renewal failed with 401 and the previous, expired pair is
\* still stored.
C2_Witness ==
    \E t \in Tasks :
        /\ pc[t] = "idle" /\ outcome[t].kind = "HTTPStatusError"
        /\ outcome[t].phase = "identity" /\ outcome[t].status = 401
        /\ access_token[self[t]] # None
        /\ now >= token_expires_at[self[t]]

\* C3: the step that handles a success response lacking access_token or
\* expires_in fails and leaves accessToken and expiresAt as they were.
C3_MalformedKeepsState ==
    [][\A t \in Tasks :
        (/\ pc[t] = "token_resp" /\ ~NonSuccess(response[t].status)
         /\ \/ "access_token" \notin DOMAIN response[t].body
            \/ "expires_in" \notin DOMAIN response[t].body
         /\ pc'[t] # pc[t]) =>
            /\ pc'[t] = "idle" /\ outcome'[t].kind = "KeyError"
            /\ access_token' = access_token
            /\ token_expires_at' = token_expires_at]_vars

C5_ExpiryFromIssueTime ==
    [][\A t \in Tasks :
        (pc[t] = "token_resp" /\ pc'[t] = "token_done") =>
            token_expires_at'[self[t]] =
                response[t].issued + response[t].body.expires_in - 60]_vars

\* C5 (amended): after a successful renewal expiresAt is the time at which the
\* response is processed plus the declared lifetime minus 60.
C5_ExpiryFromProcessingTime ==
    [][\A t \in Tasks :
        (pc[t] = "token_resp" /\ pc'[t] = "token_done") =>
            token_expires_at'[self[t]] = now + response[t].body.expires_in - 60]_vars

\* C5 witness: a response issued earlier with expires_in = 300 has just been
\* processed, and expiresAt is the processing time plus 240.
C5_Witness ==
    \E t \in Tasks :
        /\ pc[t] = "token_done" /\ response[t].body.expires_in = 300
        /\ response[t].issued < now
        /\ token_expires_at[self[t]] = now + 240

\* C6: no call sends more than one identity request or more than one resource
\* request, and a call whose resource request got a non-success status has
\* ended with an error carrying that status and body after exactly one
\* resource request.
C6_SingleAttempt ==
    \A t \in Tasks :
        /\ idReq[t] <= 1 /\ resReq[t] <= 1
        /\ (pc[t] = "idle" /\ response[t] # NoResponse /\ NonSuccess(response[t].status)) =>
              /\ outcome[t] = [kind |-> "HTTPStatusError", phase |-> "resource",
                               status |-> response[t].status, body |-> response[t].body]
              /\ resReq[t] = 1

\* C6 witness: a call ended with the HTTP 500 of its one resource request.
C6_Witness ==
    \E t \in Tasks :
        /\ pc[t] = "idle" /\ outcome[t].kind = "HTTPStatusError"
        /\ outcome[t].phase = "resource" /\ outcome[t].status = 500
        /\ outcome[t].body = ErrorBody /\ resReq[t] = 1

\* C7: a call has built or sent a resource request only if its ensureToken
\* completed successfully, and a call whose ensureToken failed has ended with
\* that failure as its outcome and sent no resource request.
C7_RequestOnlyAfterToken ==
    \A t \in Tasks :
        /\ (resReq[t] > 0 \/ pc[t] \in {"token_done", "request_ready", "request_wait"}) =>
              path[t] \in {"fast", "renewed"}
        /\ path[t] = "failed" =>
              /\ pc[t] = "idle" /\ resReq[t] = 0
              /\ outcome[t].kind \in {"HTTPStatusError", "KeyError", "TransportError"}
              /\ outcome[t].phase = "identity"

\* C7 witness: a call ended with the failure of its ensureToken, and another
\* call has its resource request on the wire after a successful ensureToken.
C7_Witness ==
    \E t, u \in Tasks :
        /\ path[t] = "failed" /\ pc[t] = "idle" /\ resReq[t] = 0
        /\ outcome[t].kind = "HTTPStatusError"
        /\ pc[u] = "request_wait" /\ resReq[u] = 1

\* C8: every call that saw an absent or expired token sent its own identity
\* request, and once no renewal is in flight on an instance on which a
\* renewal succeeded, its accessToken and expiresAt are a pair stored by one
\* of the successful renewals.
C8_FinalStateFromSuccessfulRenewal ==
    /\ \A t \in Tasks : (path[t] # "none" /\ needed[t]) => idReq[t] = 1
    /\ \A c \in Instances :
        (/\ renewed[c] # {}
         /\ \A t \in Tasks : ~(self[t] = c /\ pc[t] \in {"token_post", "token_resp"})) =>
            [tok |-> access_token[c], exp |-> token_expires_at[c]] \in renewed[c]

\* C9: a step of a call on one instance, and the construction of an instance,
\* leave accessToken and expiresAt of every other instance unchanged.
C9_InstancesDoNotShare ==
    [][\A c \in Instances :
        /\ c \in DOMAIN access_token'
        /\ ((\A t \in Tasks : pc'[t] # pc[t] => self'[t] # c) =>
               /\ access_token'[c] = access_token[c]
               /\ token_expires_at'[c] = token_expires_at[c])]_vars

\* C9 witness: two instances exist, one holding a renewed token and the other
\* still without one.
C9_Witness ==
    \E c, d \in Instances :
        /\ c # d /\ renewed[c] # {} /\ access_token[c] # None
        /\ access_token[d] = None /\ token_expires_at[d] = 0

\* C10: an instance exists only if all three credentials were supplied
\* non-empty, and then holds them; a construction that raised created no
\* instance and had a credential absent or empty.
C10_ClientNeedsAllCredentials ==
    \A c \in Clients :
        /\ c \in Instances =>
              /\ \A n \in EnvNames : Supplied(n)
              /\ client_id[c] = environ["INVESTEC_CLIENT_ID"]
              /\ client_secret[c] = environ["INVESTEC_CLIENT_SECRET"]
              /\ api_key[c] = environ["INVESTEC_API_KEY"]
        /\ c \in raised =>
              /\ c \notin Instances
              /\ \E n \in EnvNames : ~Supplied(n)

\* C10 witness: construction raised with exactly one credential absent or
\* empty.
C10_Witness ==
    \E c \in raised :
        /\ c \notin Instances
        /\ Cardinality({n \in EnvNames : ~Supplied(n)}) = 1

\* the one _make_request call of a finished get_account_transactions
TxnRequest == op_trace[1]

\* C12 (as claimed): get_account_transactions issues one GET to
\* /accounts/{id}/transactions whose query has fromDate, toDate or
\* transactionType exactly when that argument was passed (an empty string
\* counting as passed), and includePending = "true" exactly when
\* include_pending is true.
C12_KeyWhenPassed ==
    (op_args.op = "get_account_transactions" /\ op_trace # <<>>) =>
        /\ Len(op_trace) = 1 /\ TxnRequest.fn = "_make_request"
        /\ TxnRequest.method = "GET"
        /\ TxnRequest.endpoint = <<"/accounts/", op_args.account_id, "/transactions">>
        /\ LET params == TxnRequest.kwargs.params
           IN /\ "fromDate" \in DOMAIN params <=> op_args.from_date # Omitted
              /\ "toDate" \in DOMAIN params <=> op_args.to_date # Omitted
              /\ "transactionType" \in DOMAIN params <=> op_args.transaction_type # Omitted
              /\ "includePending" \in DOMAIN params <=> op_args.include_pending
              /\ op_args.include_pending => params["includePending"] = "true"

\* C12 (amended): the query has fromDate, toDate or transactionType, with the
\* argument's value, exactly when that argument was passed and is not the
\* empty string, includePending = "true" exactly when include_pending is
\* true, and no other key.
C12_KeyWhenNonEmpty ==
    (op_args.op = "get_account_transactions" /\ op_trace # <<>>) =>
        /\ Len(op_trace) = 1 /\ TxnRequest.fn = "_make_request"
        /\ TxnRequest.method = "GET"
        /\ TxnRequest.endpoint = <<"/accounts/", op_args.account_id, "/transactions">>
        /\ DOMAIN TxnRequest.kwargs = {"params"}
        /\ LET params == TxnRequest.kwargs.params
           IN /\ DOMAIN params \subseteq
                    {"fromDate", "toDate", "transactionType", "includePending"}
              /\ "fromDate" \in DOMAIN params <=> op_args.from_date \notin {Omitted, ""}
              /\ "toDate" \in DOMAIN params <=> op_args.to_date \notin {Omitted, ""}
              /\ "transactionType" \in DOMAIN params <=>
                    op_args.transaction_type \notin {Omitted, ""}
              /\ "includePending" \in DOMAIN params <=> op_args.include_pending
              /\ "fromDate" \in DOMAIN params => params["fromDate"] = op_args.from_date
              /\ "toDate" \in DOMAIN params => params["toDate"] = op_args.to_date
              /\ "transactionType" \in DOMAIN params =>
                    params["transactionType"] = op_args.transaction_type
              /\ op_args.include_pending => params["includePending"] = "true"

\* C12 witness: account "123" with from_date passed as the empty string, a
\* to_date, no transaction type and include_pending: the query has toDate and
\* includePending only.
C12_Witness ==
    /\ op_args.op = "get_account_transactions" /\ op_trace # <<>>
    /\ op_args.account_id = "123" /\ op_args.from_date = ""
    /\ op_args.transaction_type = Omitted /\ op_args.include_pending
    /\ TxnRequest.endpoint = <<"/accounts/", "123", "/transactions">>
    /\ DOMAIN TxnRequest.kwargs.params = {"toDate", "includePending"}
    /\ TxnRequest.kwargs.params["includePending"] = "true"

\* C13: transfer_money makes exactly one transfer_multiple call on the source
\* account, whose POST body is a one-element transferList with the
\* stringified amount and the reference in both reference fields, and no
\* profileId; pay_beneficiary makes exactly one pay_multiple call with a
\* one-element paymentList built the same way; transfer_multiple's body has
\* profileId, with the id passed, exactly when a (non-empty) profile id was
\* passed.
C13_ConvenienceMethodsDelegate ==
    op_trace # <<>> =>
        /\ op_args.op = "transfer_money" =>
              op_trace =
                <<[fn |-> "transfer_multiple", account |-> op_args.account_id],
                  [fn |-> "_make_request", method |-> "POST",
                   endpoint |-> <<"/accounts/", op_args.account_id, "/transfermultiple">>,
                   kwargs |-> [json |-> [k \in {"transferList"} |->
                                  <<[beneficiaryAccountId |-> op_args.to,
                                     amount |-> PyStr(op_args.amount),
                                     myReference |-> op_args.reference,
                                     theirReference |-> op_args.reference]>>],
                               headers |-> [Content_Type |-> "application/json"]]]>>
        /\ op_args.op = "pay_beneficiary" =>
              op_trace =
                <<[fn |-> "pay_multiple", account |-> op_args.account_id],
                  [fn |-> "_make_request", method |-> "POST",
                   endpoint |-> <<"/accounts/", op_args.account_id, "/paymultiple">>,
                   kwargs |-> [json |-> [k \in {"paymentList"} |->
                                  <<[beneficiaryId |-> op_args.to,
                                     amount |-> PyStr(op_args.amount),
                                     myReference |-> op_args.reference,
                                     theirReference |-> op_args.reference]>>],
                               headers |-> [Content_Type |-> "application/json"]]]>>
        /\ op_args.op = "transfer_multiple" =>
              /\ Len(op_trace) = 2 /\ op_trace[2].fn = "_make_request"
              /\ LET body == op_trace[2].kwargs.json
                 IN /\ body["transferList"] = op_args.list
                    /\ "profileId" \in DOMAIN body <=>
                          op_args.profile_id \notin {Omitted, ""}
                    /\ "profileId" \in DOMAIN body =>
                          body["profileId"] = op_args.profile_id

\* C13 witness: transfer_money("A", "B", 100.0, "ref") has made its one
\* transfer_multiple call, with amount "100.0" and no profileId.
C13_Witness ==
    /\ op_args.op = "transfer_money" /\ op_args.amount = 10000
    /\ op_args.reference = "ref" /\ Len(op_trace) = 2
    /\ op_trace[1] = [fn |-> "transfer_multiple", account |-> "A"]
    /\ DOMAIN op_trace[2].kwargs.json = {"transferList"}
    /\ op_trace[2].kwargs.json["transferList"] =
          <<[beneficiaryAccountId |-> "B", amount |-> "100.0",
             myReference |-> "ref", theirReference |-> "ref"]>>

\* C14: a step changes accessToken or expiresAt of an instance only if it is
\* the step of a renewing call on that instance that processes a success
\* answer of the identity endpoint carrying a token; every other step (the
\* fast path, sending the resource request, its answer or its failure, time
\* passing) leaves both fields of every instance as they were.
C14_OnlyRenewalMutates ==
    [][\A c \in Instances :
          (access_token'[c] # access_token[c] \/ token_expires_at'[c] # token_expires_at[c])
          => \E t \in Tasks :
                /\ pc[t] = "token_resp" /\ pc'[t] # "token_resp"
                /\ self[t] = c /\ path[t] = "renewing"
                /\ IsSuccess(response[t].status)
                /\ "access_token" \in DOMAIN response[t].body]_vars

\* C14 witness: a call that took the fast path has failed on its resource
\* request, and the instance still has the token and expiry it had.
C14_Witness ==
    \E t \in Tasks :
        /\ pc[t] = "idle" /\ path[t] = "fast"
        /\ outcome[t].kind = "HTTPStatusError" /\ outcome[t].phase = "resource"
        /\ access_token[self[t]] # None
        /\ [tok |-> access_token[self[t]], exp |-> token_expires_at[self[t]]]
              \in renewed[self[t]]

\* C15: when both endpoints answer every request, every call that has started
\* comes to its end (a result or an error), whatever the other callers do.
C15_EveryCallEnds ==
    \A t \in Tasks : (pc[t] # "idle") ~> (pc[t] = "idle")

\* C15 witness: two calls on the same instance ran at the same time, one
\* storing a token while the other was under way, and both have ended.
C15_Witness ==
    /\ \A t \in Tasks : pc[t] = "idle" /\ outcome[t].kind # "none"
    /\ self[1] = self[2]
    /\ \E t \in Tasks : raced[t]

\* C16: the stored accessToken and expiresAt are always the pair written from
\* one identity response (or the initial absent token with expiry 0).
C16_PairFromOneResponse ==
    \A c \in Instances :
        \/ access_token[c] = None /\ token_expires_at[c] = 0
        \/ [tok |-> access_token[c], exp |-> token_expires_at[c]] \in renewed[c]

\* C17: a resource request is never sent with an absent bearer token, a token
\* once stored by a successful renewal never becomes absent again, and the
\* Authorization header of a resource request holds a token that a successful
\* renewal on the instance stored.
C17_HeaderFromSuccessfulRenewal ==
    /\ \A c \in Instances : renewed[c] # {} => access_token[c] # None
    /\ \A t \in Tasks :
          pc[t] \in {"request_ready", "request_wait"} =>
              /\ headers[t] # None
              /\ \E r \in renewed[self[t]] : r.tok = headers[t]
====
